---- MODULE Spec2Model ----
(***************************************************************************)
(* Device tree virtual multiplexer (drivers/misc/of-mux.c).                *)
(*                                                                         *)
(* One platform device is modelled: the driver core thread "drv" runs      *)
(* of_mux_probe and later of_mux_remove, and user threads write the sysfs  *)
(* attribute "state" (state_store -> of_mux_set_state).  The overlay       *)
(* engine (of_overlay_create / of_overlay_destroy) is an external          *)
(* collaborator whose calls may succeed or fail.                           *)
(*                                                                         *)
(* Strings are sequences of one-character strings, so the prefix strip of  *)
(* probe and the newline trim of state_store are computed as in the code.  *)
(***************************************************************************)
EXTENDS Integers, Sequences, FiniteSets, TLC

VARIABLES
    children,             \* dev->of_node: the child node names, in order
    default_prop,         \* property "default-state" (empty when absent)
    switch_prop,          \* property "switch-delay-ms" (empty when absent)
    post_prop,            \* property "post-switch-delay-ms"
    head,                 \* mux->head: list of struct mux_state
    state,                \* mux->state: index into head, NULL when none
    overlay_id,           \* mux->overlay_id
    switch_delay_ms,      \* mux->switch_delay_ms
    post_switch_delay_ms, \* mux->post_switch_delay_ms
    lock,                 \* mux->lock: the owning thread, or NoOwner
    files,                \* the device attribute files that exist
    drvdata,              \* dev->driver_data points to mux
    default_state,        \* of_mux_probe's local default_state
    sessions,             \* overlay engine: tree of every overlay ever created
    applied,              \* overlay engine: ids of the overlays now applied
    tried,                \* overlay engine: ids a destroy was requested for
    destroyed,            \* overlay engine: ids whose destroy has succeeded
    node_puts,            \* of_node_put calls per child node
    pc,                   \* position of each thread
    name,                 \* the name passed to of_mux_set_state, per thread
    new_state,            \* of_mux_set_state's local new_state, per thread
    ret,                  \* of_mux_set_state's / probe's / remove's ret
    log,                  \* engine calls and sleeps of the thread's current call
    pre,                  \* mux->state and mux->overlay_id when the lock was taken
    calls,                \* number of attribute handler calls made so far
    out                   \* the text a show handler has put in buf, per thread

vars == <<children, default_prop, switch_prop, post_prop, head, state,
          overlay_id, switch_delay_ms, post_switch_delay_ms, lock, files,
          drvdata, default_state, sessions, applied, tried, destroyed,
          node_puts, pc, name, new_state, ret, log, pre, calls, out>>

tree_vars == <<children, default_prop, switch_prop, post_prop>>
engine_vars == <<sessions, applied, tried, destroyed>>
delay_vars == <<switch_delay_ms, post_switch_delay_ms>>

----------------------------------------------------------------------------
(* Bounds *)
MaxChildren == 2
MaxCalls == 2

(* The size of the buffer a show handler writes to. *)
PAGE_SIZE == 4096

(* errno values *)
EINVAL == 22
ENOMEM == 12

(* Distinguished values *)
NULL == 0
NoOwner == "none"
NoName == <<"(null)">>
DelayMs == 5

Users == {"u1", "u2"}
Threads == {"drv"} \cup Users

PREFIX == <<"s", "t", "a", "t", "e", "-">>

(* Node names a device tree may give to the children of the mux node. *)
ChildNames ==
    { PREFIX \o <<"a">>, PREFIX \o <<"b">>, PREFIX, <<"c", "o", "d", "e", "c">> }

(* A property is a sequence of zero values (absent) or one value.         *)
(* Values of the "default-state" property.                                 *)
DefaultProps == { <<>>, << <<"a">> >>, << <<"b">> >>, << <<"z">> >> }

(* Values of the "switch-delay-ms" and "post-switch-delay-ms" properties.  *)
DelayProps == { <<>>, <<DelayMs>> }

(* Buffers written to the "state" attribute. *)
WriteBufs == { <<"a", "\n">>, <<"b">>, <<"z", "\n">>, <<"\n">> }

(* Error codes the overlay engine reports. *)
EngineErrors == { -EINVAL, -ENOMEM }

SeqsUpTo(S, n) == UNION { [1..k -> S] : k \in 0..n }

----------------------------------------------------------------------------
(* Pure helpers *)

(* strcmp(a, b) == 0 *)
strcmp_eq(a, b) == a = b

(* A lookup that falls back to the first state when no name matches. *)
find_state_or_first(hd, nm) ==
    IF \E i \in 1..Len(hd) : hd[i].name = nm
    THEN CHOOSE i \in 1..Len(hd) :
            /\ hd[i].name = nm
            /\ \A j \in 1..(i-1) : hd[j].name # nm
    ELSE 1

(* The lookup loop of of_mux_set_state: first entry whose name matches. *)
find_state(hd, nm) ==
    IF \E i \in 1..Len(hd) : strcmp_eq(hd[i].name, nm)
    THEN CHOOSE i \in 1..Len(hd) :
            /\ strcmp_eq(hd[i].name, nm)
            /\ \A j \in 1..(i-1) : ~strcmp_eq(hd[j].name, nm)
    ELSE NULL

(* The filter of the probe loop: the child is skipped unless its name      *)
(* starts with PREFIX.                                                     *)
has_prefix(nm) ==
    ~(Len(PREFIX) > Len(nm) \/ SubSeq(nm, 1, Len(PREFIX)) # PREFIX)

(* child->name + len *)
strip_prefix(nm) == SubSeq(nm, Len(PREFIX) + 1, Len(nm))

(* The probe loop over the first n children. *)
RECURSIVE discover(_, _)
discover(ch, n) ==
    IF n = 0 THEN <<>>
    ELSE IF has_prefix(ch[n])
         THEN Append(discover(ch, n - 1),
                     [name |-> strip_prefix(ch[n]), tree |-> n])
         ELSE discover(ch, n - 1)

(* state_store: length of buf without its trailing newlines. *)
RECURSIVE trim_length(_, _)
trim_length(buf, length) ==
    IF length > 0 /\ buf[length] = "\n"
    THEN trim_length(buf, length - 1)
    ELSE length

(* kstrndup(buf, length) *)
kstrndup(buf, length) == SubSeq(buf, 1, length)

----------------------------------------------------------------------------
(* The overlay engine.  A created overlay gets a fresh id, counted from 0; *)
(* a destroy can succeed only for an overlay that is applied; either call  *)
(* may fail with an error code and then changes nothing.                   *)

of_overlay_create(tree, r) ==
    \/ /\ r = Len(sessions)
       /\ sessions' = Append(sessions, tree)
       /\ applied' = applied \cup {r}
       /\ UNCHANGED <<tried, destroyed>>
    \/ /\ r \in EngineErrors
       /\ UNCHANGED engine_vars

of_overlay_destroy(id, r) ==
    /\ tried' = tried \cup {id}
    /\ \/ /\ r = 0
          /\ id \in applied
          /\ applied' = applied \ {id}
          /\ destroyed' = destroyed \cup {id}
          /\ UNCHANGED sessions
       \/ /\ r \in EngineErrors
          /\ UNCHANGED <<sessions, applied, destroyed>>

EngineResults == (0..MaxCalls + 1) \cup EngineErrors

(* A thread is inside an attribute handler (it holds the file active). *)
in_handler(t) == t \in Users /\ pc[t] # "idle"

(* pre[t] while thread t has not taken the lock. *)
NoPre == <<NULL, -1>>

Logged(t, ev) == log' = [log EXCEPT ![t] = Append(@, ev)]

----------------------------------------------------------------------------
(* The device before it is probed, whatever children its node has. *)
InitDevice ==
    /\ default_prop \in DefaultProps
    /\ switch_prop \in DelayProps
    /\ post_prop \in DelayProps
    /\ head = <<>>
    /\ state = NULL
    /\ overlay_id = 0
    /\ switch_delay_ms = 0
    /\ post_switch_delay_ms = 0
    /\ lock = NoOwner
    /\ files = {}
    /\ drvdata = FALSE
    /\ default_state = <<>>
    /\ sessions = <<>>
    /\ applied = {}
    /\ tried = {}
    /\ destroyed = {}
    /\ node_puts = [n \in 1..Len(children) |-> 0]
    /\ pc = [t \in Threads |-> IF t = "drv" THEN "probe" ELSE "idle"]
    /\ name = [t \in Threads |-> NoName]
    /\ new_state = [t \in Threads |-> NULL]
    /\ ret = [t \in Threads |-> 0]
    /\ log = [t \in Threads |-> <<>>]
    /\ pre = [t \in Threads |-> NoPre]
    /\ calls = 0
    /\ out = [t \in Threads |-> <<>>]

(* Every device tree within the bounds, before the device is probed. *)
InitProbe ==
    /\ children \in SeqsUpTo(ChildNames, MaxChildren)
    /\ InitDevice

----------------------------------------------------------------------------
(* of_mux_set_state *)

(* Lines 41-51: look the name up; -EINVAL without taking the lock. *)
of_mux_set_state_lookup(t, nm, retpc) ==
    LET ns == find_state(head, nm) IN
    /\ name' = [name EXCEPT ![t] = nm]
    /\ new_state' = [new_state EXCEPT ![t] = ns]
    /\ log' = [log EXCEPT ![t] = <<>>]
    /\ pre' = [pre EXCEPT ![t] = NoPre]
    /\ IF ns = NULL
       THEN /\ ret' = [ret EXCEPT ![t] = -EINVAL]
            /\ pc' = [pc EXCEPT ![t] = retpc]
       ELSE /\ ret' = [ret EXCEPT ![t] = 0]
            /\ pc' = [pc EXCEPT ![t] = "lock"]

(* A mutex_lock that returns although the mutex is owned. *)
mutex_available_unguarded == TRUE

(* mutex_lock can return only when nobody owns the mutex. *)
mutex_available == lock = NoOwner

(* A comparison that never finds the state current. *)
already_current_never(t) == FALSE

(* Line 54: mux->state == new_state *)
already_current(t) == state = new_state[t]

(* Lines 53-59: take the lock; nothing to do when the state is current. *)
of_mux_set_state_lock(t) ==
    /\ pc[t] = "lock"
    /\ mutex_available
    /\ lock' = t
    /\ pre' = [pre EXCEPT ![t] = <<state, overlay_id>>]
    /\ IF already_current(t)
       THEN /\ ret' = [ret EXCEPT ![t] = 0]
            /\ pc' = [pc EXCEPT ![t] = "unlock"]
       ELSE /\ pc' = [pc EXCEPT ![t] = "destroy"]
            /\ UNCHANGED ret
    /\ UNCHANGED <<tree_vars, head, state, overlay_id, delay_vars, files,
                   drvdata, default_state, engine_vars, node_puts, name, new_state,
                   log, calls, out>>

(* The test written as overlay_id > 0: the overlay with id 0 is kept. *)
overlay_active_positive == overlay_id > 0

(* The test left out: a destroy is requested whatever overlay_id holds. *)
overlay_active_always == TRUE

(* Line 61: mux->overlay_id >= 0 *)
overlay_active == overlay_id >= 0

(* mux->state cleared before the result of the destroy is tested. *)
state_after_destroy_cleared(r) == NULL

(* Lines 64-66: mux->state is cleared only when the destroy succeeded. *)
state_after_destroy(r) == IF r < 0 THEN state ELSE NULL

(* Lines 61-67: remove the overlay of the old state. *)
of_mux_set_state_destroy(t) ==
    /\ pc[t] = "destroy"
    /\ IF overlay_active
       THEN \E r \in {0} \cup EngineErrors :
              /\ of_overlay_destroy(overlay_id, r)
              /\ Logged(t, <<"destroy", overlay_id, r>>)
              /\ state' = state_after_destroy(r)
              /\ IF r < 0
                 THEN /\ ret' = [ret EXCEPT ![t] = r]
                      /\ pc' = [pc EXCEPT ![t] = "unlock"]
                 ELSE /\ pc' = [pc EXCEPT ![t] = "sleep"]
                      /\ UNCHANGED ret
       ELSE /\ pc' = [pc EXCEPT ![t] = "sleep"]
            /\ UNCHANGED <<engine_vars, log, ret, state>>
    /\ UNCHANGED <<tree_vars, head, overlay_id, delay_vars, lock, files,
                   drvdata, default_state, node_puts, name, new_state, pre, calls, out>>

(* Lines 69-70: the switch delay. *)
of_mux_set_state_sleep(t) ==
    /\ pc[t] = "sleep"
    /\ IF switch_delay_ms # 0
       THEN Logged(t, <<"msleep", switch_delay_ms, 0>>)
       ELSE UNCHANGED log
    /\ pc' = [pc EXCEPT ![t] = "create"]
    /\ UNCHANGED <<tree_vars, head, state, overlay_id, delay_vars, lock,
                   files, drvdata, default_state, engine_vars, node_puts,
                   name, new_state, ret, pre, calls, out>>

(* The result of a failed create kept in a local: overlay_id keeps the id  *)
(* of the overlay that was destroyed.                                      *)
id_after_create_kept(r) == IF r < 0 THEN overlay_id ELSE r

(* Line 73: mux->overlay_id takes the result of of_overlay_create. *)
id_after_create(r) == r

(* The assignment of line 79 left out: mux->state stays as it was. *)
state_after_create_unset(t, r) == state

(* mux->state assigned before the result of the create is tested. *)
state_after_create_early(t, r) == new_state[t]

(* Lines 74-79: mux->state is set only when the create succeeded. *)
state_after_create(t, r) == IF r < 0 THEN state ELSE new_state[t]

(* Lines 72-80: apply the overlay of the new state. *)
of_mux_set_state_create(t) ==
    /\ pc[t] = "create"
    /\ \E r \in EngineResults :
         /\ of_overlay_create(head[new_state[t]].tree, r)
         /\ overlay_id' = id_after_create(r)
         /\ Logged(t, <<"create", head[new_state[t]].tree, r>>)
         /\ state' = state_after_create(t, r)
         /\ IF r < 0
            THEN /\ ret' = [ret EXCEPT ![t] = r]
                 /\ pc' = [pc EXCEPT ![t] = "unlock"]
            ELSE /\ ret' = [ret EXCEPT ![t] = 0]
                 /\ pc' = [pc EXCEPT ![t] = "post_sleep"]
    /\ UNCHANGED <<tree_vars, head, delay_vars, lock, files, drvdata,
                   default_state, node_puts, name, new_state, pre, calls, out>>

(* Lines 82-83: the post-switch delay. *)
of_mux_set_state_post_sleep(t) ==
    /\ pc[t] = "post_sleep"
    /\ IF post_switch_delay_ms # 0
       THEN Logged(t, <<"msleep", post_switch_delay_ms, 0>>)
       ELSE UNCHANGED log
    /\ pc' = [pc EXCEPT ![t] = "unlock"]
    /\ UNCHANGED <<tree_vars, head, state, overlay_id, delay_vars, lock,
                   files, drvdata, default_state, engine_vars, node_puts,
                   name, new_state, ret, pre, calls, out>>

(* A return that leaves the mutex to its owner. *)
mutex_unlock_skipped(t) == lock

(* Line 86: mutex_unlock(&mux->lock), the owner of the mutex afterwards. *)
mutex_unlock(t) == NoOwner

(* Lines 85-87: unlock and return ret to the caller. *)
of_mux_set_state_unlock(t) ==
    /\ pc[t] = "unlock"
    /\ lock' = mutex_unlock(t)
    /\ pc' = [pc EXCEPT ![t] = IF t = "drv" THEN "publish" ELSE "store_ret"]
    /\ UNCHANGED <<tree_vars, head, state, overlay_id, delay_vars, files,
                   drvdata, default_state, engine_vars, node_puts, name, new_state,
                   ret, log, pre, calls, out>>

----------------------------------------------------------------------------
(* state_store *)

(* Lines 120-135: a write of buf to the attribute "state".  The handler    *)
(* dereferences dev_get_drvdata(dev), which is NULL until probe has        *)
(* published the instance.                                                 *)
state_store(t, buf) ==
    /\ pc[t] = "idle"
    /\ "state" \in files
    /\ calls < MaxCalls
    /\ calls' = calls + 1
    /\ \/ /\ ret' = [ret EXCEPT ![t] = -ENOMEM]
          /\ pc' = [pc EXCEPT ![t] = "store_ret"]
          /\ log' = [log EXCEPT ![t] = <<>>]
          /\ pre' = [pre EXCEPT ![t] = NoPre]
          /\ UNCHANGED <<name, new_state>>
       \/ IF ~drvdata
          THEN /\ pc' = [pc EXCEPT ![t] = "oops"]
               /\ UNCHANGED <<name, new_state, ret, log, pre>>
          ELSE of_mux_set_state_lookup(t,
                  kstrndup(buf, trim_length(buf, Len(buf))), "store_ret")
    /\ UNCHANGED <<tree_vars, head, state, overlay_id, delay_vars, lock,
                   files, drvdata, default_state, engine_vars, node_puts,
                   out>>

(* Lines 136-137: the handler returns and its locals are gone. *)
state_store_return(t) ==
    /\ pc[t] = "store_ret"
    /\ pc' = [pc EXCEPT ![t] = "idle"]
    /\ name' = [name EXCEPT ![t] = NoName]
    /\ new_state' = [new_state EXCEPT ![t] = NULL]
    /\ ret' = [ret EXCEPT ![t] = 0]
    /\ log' = [log EXCEPT ![t] = <<>>]
    /\ pre' = [pre EXCEPT ![t] = NoPre]
    /\ UNCHANGED <<tree_vars, head, state, overlay_id, delay_vars, lock,
                   files, drvdata, default_state, engine_vars, node_puts,
                   calls, out>>

----------------------------------------------------------------------------
(* state_show and available_states_show *)

(* scnprintf(buf, size, ...): at most size - 1 characters are written. *)
scnprintf(size, text) ==
    IF Len(text) > size - 1 THEN SubSeq(text, 1, size - 1) ELSE text

(* A NULL state printed as "(null)". *)
show_name_null(st) ==
    IF st = NULL THEN <<"(", "n", "u", "l", "l", ")">> ELSE head[st].name

(* Line 117: state ? state->name : "" *)
show_name(st) == IF st = NULL THEN <<>> ELSE head[st].name

(* Lines 111-118: a read of the attribute "state"; mux->state is read      *)
(* once, without the lock.                                                 *)
state_show(t) ==
    /\ pc[t] = "idle"
    /\ "state" \in files
    /\ calls < MaxCalls
    /\ calls' = calls + 1
    /\ IF ~drvdata
       THEN /\ pc' = [pc EXCEPT ![t] = "oops"]
            /\ UNCHANGED out
       ELSE /\ out' = [out EXCEPT ![t] =
                         scnprintf(PAGE_SIZE, show_name(state) \o <<"\n">>)]
            /\ pc' = [pc EXCEPT ![t] = "state_show_ret"]
    /\ UNCHANGED <<tree_vars, head, state, overlay_id, delay_vars, lock,
                   files, drvdata, default_state, engine_vars, node_puts,
                   name, new_state, ret, log, pre>>

(* The loop run from the last state to the first. *)
RECURSIVE available_states_text_reversed(_, _, _)
available_states_text_reversed(hd, k, buf) ==
    IF k > Len(hd) THEN buf \o <<"\n">>
    ELSE IF Len(buf) >= PAGE_SIZE - Len(hd[Len(hd) + 1 - k].name) - 3
         THEN buf \o <<"\n">>
         ELSE available_states_text_reversed(hd, k + 1,
                  buf \o hd[Len(hd) + 1 - k].name \o <<" ">>)

(* Lines 98-108: the loop of available_states_show from the k-th state on, *)
(* buf being the text written so far (i = Len(buf)).                       *)
RECURSIVE available_states_text(_, _, _)
available_states_text(hd, k, buf) ==
    IF k > Len(hd) THEN buf \o <<"\n">>
    ELSE IF Len(buf) >= PAGE_SIZE - Len(hd[k].name) - 3
         THEN buf \o <<"\n">>
         ELSE available_states_text(hd, k + 1, buf \o hd[k].name \o <<" ">>)

(* Lines 90-109: a read of the attribute "available_states". *)
available_states_show(t) ==
    /\ pc[t] = "idle"
    /\ "available_states" \in files
    /\ calls < MaxCalls
    /\ calls' = calls + 1
    /\ IF ~drvdata
       THEN /\ pc' = [pc EXCEPT ![t] = "oops"]
            /\ UNCHANGED out
       ELSE /\ out' = [out EXCEPT ![t] = available_states_text(head, 1, <<>>)]
            /\ pc' = [pc EXCEPT ![t] = "available_states_show_ret"]
    /\ UNCHANGED <<tree_vars, head, state, overlay_id, delay_vars, lock,
                   files, drvdata, default_state, engine_vars, node_puts,
                   name, new_state, ret, log, pre>>

(* A show handler returns the length of the text in buf. *)
show_return(t) ==
    /\ pc[t] \in {"state_show_ret", "available_states_show_ret"}
    /\ pc' = [pc EXCEPT ![t] = "idle"]
    /\ out' = [out EXCEPT ![t] = <<>>]
    /\ UNCHANGED <<tree_vars, head, state, overlay_id, delay_vars, lock,
                   files, drvdata, default_state, engine_vars, node_puts,
                   name, new_state, ret, log, pre, calls>>

----------------------------------------------------------------------------
(* of_mux_probe *)

(* Lines 197-199: the name of the default state. *)
resolve_default(prop, hd) ==
    IF prop = <<>> THEN hd[1].name ELSE prop[1]

(* of_property_read_u32 into a zeroed field, 0 when the property is absent *)
read_u32(prop) == IF prop = <<>> THEN 0 ELSE prop[1]

(* Line 183 with a list that is never taken for empty. *)
list_empty_never(hd) == FALSE

(* Line 183: list_empty(&mux->head). *)
list_empty(hd) == hd = <<>>

(* Lines 148-186: allocate the instance and discover the states. *)
of_mux_probe_discover ==
    /\ pc["drv"] = "probe"
    /\ \/ /\ ret' = [ret EXCEPT !["drv"] = -ENOMEM]
          /\ pc' = [pc EXCEPT !["drv"] = "failed"]
          /\ UNCHANGED <<overlay_id, head>>
       \/ /\ overlay_id' = -1
          /\ head' = discover(children, Len(children))
          /\ IF list_empty(head')
             THEN /\ ret' = [ret EXCEPT !["drv"] = -EINVAL]
                  /\ pc' = [pc EXCEPT !["drv"] = "failed"]
             ELSE /\ pc' = [pc EXCEPT !["drv"] = "file_state"]
                  /\ UNCHANGED ret
    /\ UNCHANGED <<tree_vars, state, delay_vars, lock, files, drvdata,
                   default_state, engine_vars, node_puts, name, new_state, log,
                   pre, calls, out>>

(* Lines 188-190: create the attribute "state". *)
of_mux_probe_file_state ==
    /\ pc["drv"] = "file_state"
    /\ \/ /\ ret' = [ret EXCEPT !["drv"] = -ENOMEM]
          /\ pc' = [pc EXCEPT !["drv"] = "failed"]
          /\ UNCHANGED files
       \/ /\ files' = files \cup {"state"}
          /\ pc' = [pc EXCEPT !["drv"] = "file_avail"]
          /\ UNCHANGED ret
    /\ UNCHANGED <<tree_vars, head, state, overlay_id, delay_vars, lock,
                   drvdata, default_state, engine_vars, node_puts, name, new_state,
                   log, pre, calls, out>>

(* Lines 191-195: create the attribute "available_states"; on failure the  *)
(* attribute "state" is removed, which waits for its running handlers.     *)
of_mux_probe_file_avail ==
    /\ pc["drv"] = "file_avail"
    /\ \/ /\ \A u \in Users : ~in_handler(u)
          /\ files' = files \ {"state"}
          /\ ret' = [ret EXCEPT !["drv"] = -ENOMEM]
          /\ pc' = [pc EXCEPT !["drv"] = "failed"]
       \/ /\ files' = files \cup {"available_states"}
          /\ pc' = [pc EXCEPT !["drv"] = "default"]
          /\ UNCHANGED ret
    /\ UNCHANGED <<tree_vars, head, state, overlay_id, delay_vars, lock,
                   drvdata, default_state, engine_vars, node_puts, name, new_state,
                   log, pre, calls, out>>

(* Lines 197-209: read the properties and call of_mux_set_state with the   *)
(* default state.                                                          *)
of_mux_probe_default ==
    /\ pc["drv"] = "default"
    /\ default_state' = resolve_default(default_prop, head)
    /\ switch_delay_ms' = read_u32(switch_prop)
    /\ post_switch_delay_ms' = read_u32(post_prop)
    /\ of_mux_set_state_lookup("drv", default_state', "publish")
    /\ UNCHANGED <<tree_vars, head, state, overlay_id, lock, files, drvdata,
                   engine_vars, node_puts, calls, out>>

(* The result of of_mux_set_state returned by probe. *)
probe_return_propagated(r) == r

(* Lines 209-213: probe returns 0 whatever of_mux_set_state returned. *)
probe_return(r) == 0

(* Lines 209-213: a failure to set the default state is only logged; the   *)
(* instance is published and probe returns 0.                              *)
of_mux_probe_publish ==
    /\ pc["drv"] = "publish"
    /\ drvdata' = TRUE
    /\ ret' = [ret EXCEPT !["drv"] = probe_return(ret["drv"])]
    /\ pc' = [pc EXCEPT !["drv"] =
                  IF probe_return(ret["drv"]) < 0 THEN "failed" ELSE "bound"]
    /\ UNCHANGED <<tree_vars, head, state, overlay_id, delay_vars, lock,
                   files, default_state, engine_vars, node_puts, name, new_state,
                   log, pre, calls, out>>

----------------------------------------------------------------------------
(* of_mux_remove *)

(* Lines 230-231 with no of_node_put at all. *)
of_node_put_none(puts, hd) == puts

(* Lines 230-231: one of_node_put for the tree of every state of the list. *)
of_node_put_all(puts, hd) ==
    [n \in DOMAIN puts |->
        puts[n] + Cardinality({i \in 1..Len(hd) : hd[i].tree = n})]

(* Lines 219-225: remove the applied overlay, without taking the lock. *)
of_mux_remove_destroy ==
    /\ pc["drv"] = "bound"
    /\ pre' = [pre EXCEPT !["drv"] = <<state, overlay_id>>]
    /\ IF overlay_id >= 0
       THEN \E r \in {0} \cup EngineErrors :
              /\ of_overlay_destroy(overlay_id, r)
              /\ log' = [log EXCEPT !["drv"] = << <<"destroy", overlay_id, r>> >>]
              /\ ret' = [ret EXCEPT !["drv"] = r]
              /\ pc' = [pc EXCEPT !["drv"] =
                            IF r < 0 THEN "remove_failed" ELSE "remove_files"]
       ELSE /\ pc' = [pc EXCEPT !["drv"] = "remove_files"]
            /\ log' = [log EXCEPT !["drv"] = <<>>]
            /\ UNCHANGED <<engine_vars, ret>>
    /\ UNCHANGED <<tree_vars, head, state, overlay_id, delay_vars, lock,
                   files, drvdata, default_state, node_puts, name, new_state,
                   calls, out>>

(* Lines 227-234: remove the attributes (waiting for their running         *)
(* handlers), put the node of every state and return 0.                    *)
of_mux_remove_files ==
    /\ pc["drv"] = "remove_files"
    /\ \A u \in Users : ~in_handler(u)
    /\ files' = {}
    /\ node_puts' = of_node_put_all(node_puts, head)
    /\ ret' = [ret EXCEPT !["drv"] = 0]
    /\ pc' = [pc EXCEPT !["drv"] = "removed"]
    /\ UNCHANGED <<tree_vars, head, state, overlay_id, delay_vars, lock,
                   drvdata, default_state, engine_vars, name, new_state, log, pre,
                   calls, out>>

----------------------------------------------------------------------------
Next ==
    \/ of_mux_probe_discover
    \/ of_mux_probe_file_state
    \/ of_mux_probe_file_avail
    \/ of_mux_probe_default
    \/ of_mux_probe_publish
    \/ of_mux_remove_destroy
    \/ of_mux_remove_files
    \/ \E t \in Threads : of_mux_set_state_lock(t)
    \/ \E t \in Threads : of_mux_set_state_destroy(t)
    \/ \E t \in Threads : of_mux_set_state_sleep(t)
    \/ \E t \in Threads : of_mux_set_state_create(t)
    \/ \E t \in Threads : of_mux_set_state_post_sleep(t)
    \/ \E t \in Threads : of_mux_set_state_unlock(t)
    \/ \E t \in Users, buf \in WriteBufs : state_store(t, buf)
    \/ \E t \in Users : state_store_return(t)

(* Device trees whose children are all states named "a" or "b". *)
Init ==
    /\ InitProbe
    /\ children \in [1..MaxChildren -> {PREFIX \o <<"a">>, PREFIX \o <<"b">>}]

Spec == Init /\ [][Next]_vars

(* Device trees of states "a" and "b" with a switch delay and no           *)
(* "default-state" property.                                               *)
InitFair ==
    /\ Init
    /\ default_prop = <<>>
    /\ switch_prop = <<DelayMs>>

(* The engine calls and the delays return, a thread that holds the mutex   *)
(* runs on, and the mutex is fair: a thread that finds it free again and   *)
(* again gets it.                                                          *)
Fairness ==
    \A t \in Threads :
        /\ SF_vars(of_mux_set_state_lock(t))
        /\ WF_vars(of_mux_set_state_destroy(t))
        /\ WF_vars(of_mux_set_state_sleep(t))
        /\ WF_vars(of_mux_set_state_create(t))
        /\ WF_vars(of_mux_set_state_post_sleep(t))
        /\ WF_vars(of_mux_set_state_unlock(t))

SpecFair == InitFair /\ [][Next]_vars /\ Fairness

(* Every device tree, with a single user thread. *)
NextProbe ==
    \/ of_mux_probe_discover
    \/ of_mux_probe_file_state
    \/ of_mux_probe_file_avail
    \/ of_mux_probe_default
    \/ of_mux_probe_publish
    \/ of_mux_remove_destroy
    \/ of_mux_remove_files
    \/ \E t \in {"drv", "u1"} : of_mux_set_state_lock(t)
    \/ \E t \in {"drv", "u1"} : of_mux_set_state_destroy(t)
    \/ \E t \in {"drv", "u1"} : of_mux_set_state_sleep(t)
    \/ \E t \in {"drv", "u1"} : of_mux_set_state_create(t)
    \/ \E t \in {"drv", "u1"} : of_mux_set_state_post_sleep(t)
    \/ \E t \in {"drv", "u1"} : of_mux_set_state_unlock(t)
    \/ \E buf \in WriteBufs : state_store("u1", buf)
    \/ state_store_return("u1")

SpecProbe == InitProbe /\ [][NextProbe]_vars

(* A state name as long as the page: it does not fit available_states. *)
LongName == [i \in 1..(PAGE_SIZE - 3) |-> "x"]

(* Device trees for the readers: states "a", "b" and the long one, and a   *)
(* child that is no state.                                                 *)
ReadChildNames ==
    { PREFIX \o <<"a">>, PREFIX \o <<"b">>, PREFIX \o LongName,
      <<"c", "o", "d", "e", "c">> }

InitRead ==
    /\ children \in SeqsUpTo(ReadChildNames, MaxChildren)
    /\ InitDevice
    /\ default_prop = <<>>
    /\ switch_prop = <<DelayMs>>
    /\ post_prop = <<>>

(* One writer of the attribute "state" and one reader of both attributes. *)
NextRead ==
    \/ NextProbe
    \/ state_show("u2")
    \/ available_states_show("u2")
    \/ show_return("u2")

SpecRead == InitRead /\ [][NextRead]_vars

TypeOK ==
    /\ state \in 0..Len(head)
    /\ overlay_id \in (-1..MaxCalls + 1) \cup EngineErrors
    /\ lock \in Threads \cup {NoOwner}
    /\ applied \subseteq 0..(Len(sessions) - 1)
    /\ destroyed \subseteq 0..(Len(sessions) - 1)
    /\ \A t \in Threads : new_state[t] \in 0..Len(head)

----------------------------------------------------------------------------
(* Vocabulary of the properties *)

(* Thread t is between the lock and the unlock of of_mux_set_state. *)
Holding(t) == pc[t] \in {"destroy", "sleep", "create", "post_sleep", "unlock"}

(* Thread t is inside the switch protocol: its next step is an engine call *)
(* or a delay of of_mux_set_state.                                         *)
InProtocol(t) == pc[t] \in {"destroy", "sleep", "create", "post_sleep"}

(* of_mux_remove has not been entered. *)
NotTornDown == pc["drv"] \notin {"remove_files", "remove_failed", "removed"}

(* The instance exists and has its states. *)
Initialised == head # <<>>

(* The fragment of the state recorded as current. *)
CurrentTree == head[state].tree

(* C1: the engine calls and delays of two of_mux_set_state calls never     *)
(* interleave: while one thread is inside the switch protocol no other     *)
(* thread is, and the thread inside it owns the lock.                      *)
C1_Exclusion ==
    \A t \in Threads :
        Holding(t) =>
            /\ lock = t
            /\ \A u \in Threads \ {t} : ~Holding(u)

(* A switch to another target waits for the lock while a switch that has   *)
(* already made an engine call is inside the protocol.                     *)
C1_Witness ==
    \E t \in Users, u \in Users :
        /\ t # u
        /\ pc[t] = "create"
        /\ log[t] # <<>>
        /\ pc[u] = "lock"
        /\ new_state[u] # new_state[t]

(* C2: at most one overlay is applied at any time, and whenever the lock   *)
(* is free (and the device is not being removed) the applied overlay is    *)
(* the one of mux->state: nothing when state is NULL, otherwise the        *)
(* overlay overlay_id, created from the tree of mux->state.                *)
C2_OneApplied ==
    /\ Cardinality(applied) <= 1
    /\ (Initialised /\ NotTornDown /\ lock = NoOwner) =>
          IF state = NULL
          THEN applied = {}
          ELSE /\ applied = {overlay_id}
               /\ sessions[overlay_id + 1] = CurrentTree

(* The lock is free after two writes of the attribute, and the second      *)
(* overlay created is the one applied.                                     *)
C2_Witness ==
    /\ lock = NoOwner
    /\ NotTornDown
    /\ state # NULL
    /\ applied = {1}
    /\ overlay_id = 1
    /\ calls = 2

(* C3: whenever the lock is free, overlay_id is a valid id (>= 0) exactly  *)
(* when mux->state is not NULL.                                            *)
C3_SessionIffCurrent ==
    (Initialised /\ lock = NoOwner) => ((overlay_id >= 0) <=> (state # NULL))

(* The lock is free after a switch whose create failed: no state, and      *)
(* overlay_id holds the error code.                                        *)
C3_Witness ==
    /\ Initialised
    /\ lock = NoOwner
    /\ state = NULL
    /\ overlay_id \in EngineErrors
    /\ destroyed # {}

(* Some state of the catalog has the name nm. *)
Known(nm) == \E i \in 1..Len(head) : head[i].name = nm

(* Thread t is in of_mux_set_state or at the point it returned to. *)
InCall(t) ==
    pc[t] \in {"lock", "destroy", "sleep", "create", "post_sleep", "unlock",
               "store_ret", "publish"}

(* The engine calls of a log, its delays left out. *)
EngineCalls(l) == SelectSeq(l, LAMBDA e : e[1] # "msleep")

(* The log of a delay of ms milliseconds: nothing when ms is 0. *)
SleepEvents(ms) == IF ms # 0 THEN << <<"msleep", ms, 0>> >> ELSE <<>>

(* C4: a "default-state" that names no discovered state makes probe fall   *)
(* back to the first state: when probe is about to return and no engine    *)
(* call has failed, mux->state is the first state of the list.             *)
C4_FallbackToFirst ==
    ( /\ pc["drv"] = "publish"
      /\ default_prop # <<>>
      /\ ~Known(default_prop[1])
      /\ \A i \in 1..Len(log["drv"]) : log["drv"][i][3] >= 0 )
    => /\ new_state["drv"] = 1
       /\ state = 1

(* C5: probe does not succeed with two states of the same name or with a   *)
(* state of empty name.                                                    *)
C5_InvalidNamesRejected ==
    drvdata =>
        /\ \A i \in 1..Len(head) : head[i].name # <<>>
        /\ \A i, j \in 1..Len(head) : i # j => head[i].name # head[j].name

(* C6: when the destroy of the current overlay fails, of_mux_set_state     *)
(* returns the error of the engine, has made no other engine call and no   *)
(* delay, and leaves mux->state and mux->overlay_id as they were when the  *)
(* lock was taken.                                                         *)
C6_FailedDestroy ==
    \A t \in Threads :
        ( /\ InCall(t)
          /\ log[t] # <<>>
          /\ log[t][1][1] = "destroy"
          /\ log[t][1][3] < 0 )
        => /\ Len(log[t]) = 1
           /\ pc[t] \in {"unlock", "store_ret", "publish"}
           /\ ret[t] = log[t][1][3]
           /\ pc[t] = "unlock" => (state = pre[t][1] /\ overlay_id = pre[t][2])

(* A switch from a current state to another one is about to return after   *)
(* its destroy failed.                                                     *)
C6_Witness ==
    \E t \in Users :
        /\ pc[t] = "unlock"
        /\ Len(log[t]) = 1
        /\ log[t][1][3] < 0
        /\ pre[t][1] # NULL
        /\ new_state[t] # pre[t][1]
        /\ state = pre[t][1]
        /\ overlay_id = 0

(* C7: when the destroy succeeds and the create of the new state fails,    *)
(* of_mux_set_state returns the error of the engine with mux->state NULL   *)
(* and mux->overlay_id negative; a call that finds the mux in that         *)
(* condition requests no destroy and exactly one create, of the tree of    *)
(* its target, and when that create succeeds the target is the state.      *)
C7_FailedCreate ==
    \A t \in Threads :
        /\ ( /\ pc[t] = "unlock"
             /\ pre[t][1] # NULL
             /\ log[t] # <<>>
             /\ log[t][1] = <<"destroy", pre[t][2], 0>>
             /\ log[t][Len(log[t])][1] = "create"
             /\ log[t][Len(log[t])][3] < 0 )
           => /\ ret[t] = log[t][Len(log[t])][3]
              /\ state = NULL
              /\ overlay_id < 0
        /\ ( /\ pc[t] = "unlock"
             /\ pre[t][1] = NULL
             /\ pre[t][2] < 0 )
           => /\ Len(EngineCalls(log[t])) = 1
              /\ EngineCalls(log[t])[1][1] = "create"
              /\ EngineCalls(log[t])[1][2] = head[new_state[t]].tree
              /\ EngineCalls(log[t])[1][3] >= 0
                    => /\ ret[t] = 0
                       /\ state = new_state[t]
                       /\ overlay_id = EngineCalls(log[t])[1][3]

(* The state whose overlay was the first one applied is current again:     *)
(* its overlay was destroyed, the create of another state failed, and a    *)
(* later call has created a second overlay of the same tree.               *)
C7_Witness ==
    \E t \in Users :
        /\ pc[t] = "unlock"
        /\ NotTornDown
        /\ ret[t] = 0
        /\ pre[t][1] = NULL
        /\ pre[t][2] \in EngineErrors
        /\ destroyed = {0}
        /\ Len(sessions) = 2
        /\ sessions[1] = sessions[2]
        /\ state = new_state[t]

(* C8: a call whose target is already mux->state when the lock is taken    *)
(* returns 0 with no engine call and no delay and leaves mux->state and    *)
(* mux->overlay_id untouched.                                              *)
C8_AlreadyCurrent ==
    \A t \in Threads :
        (pc[t] = "unlock" /\ pre[t][1] = new_state[t])
        => /\ ret[t] = 0
           /\ log[t] = <<>>
           /\ state = pre[t][1]
           /\ overlay_id = pre[t][2]

(* The second write of the attribute names the state that is current. *)
C8_Witness ==
    \E t \in Users :
        /\ pc[t] = "unlock"
        /\ pre[t][1] = new_state[t]
        /\ state = new_state[t]
        /\ overlay_id >= 0
        /\ calls = 2

(* Thread t enters of_mux_set_state in this step. *)
Entering(t) ==
    \/ /\ t \in Users
       /\ pc[t] = "idle"
       /\ pc'[t] \notin {"idle", "oops"}
       /\ name'[t] # NoName
    \/ /\ t = "drv"
       /\ pc[t] = "default"
       /\ pc'[t] # "default"

(* C9: a call with a name that no state has returns -EINVAL in the step    *)
(* that looks the name up: it does not wait for or take the lock, makes no *)
(* engine call and no delay, and leaves mux->state, mux->overlay_id and    *)
(* the engine untouched, whoever owns the lock.                            *)
C9_UnknownTarget ==
    [][ \A t \in Threads :
          (Entering(t) /\ ~Known(name'[t]))
          => /\ pc'[t] \in {"store_ret", "publish"}
             /\ ret'[t] = -EINVAL
             /\ log'[t] = <<>>
             /\ UNCHANGED <<state, overlay_id, lock, engine_vars>> ]_vars

(* A write of an unknown name has returned -EINVAL while another thread    *)
(* owns the lock and is inside the switch protocol.                        *)
C9_Witness ==
    \E t \in Users, u \in Users :
        /\ pc[t] = "store_ret"
        /\ name[t] # NoName
        /\ ~Known(name[t])
        /\ ret[t] = -EINVAL
        /\ lock = u
        /\ InProtocol(u)
        /\ log[u] # <<>>

(* A successful switch from a current state to another one is about to     *)
(* return: its log is the destroy of the overlay that was current, the     *)
(* switch delay, the create of the tree of the target, the post-switch     *)
(* delay.                                                                  *)
C10_Sequence(t) ==
    ( /\ pc[t] = "unlock"
      /\ ret[t] = 0
      /\ pre[t][1] # NULL
      /\ pre[t][1] # new_state[t] )
    => /\ log[t] = << <<"destroy", pre[t][2], 0>> >>
                   \o SleepEvents(switch_delay_ms)
                   \o << <<"create", head[new_state[t]].tree, overlay_id>> >>
                   \o SleepEvents(post_switch_delay_ms)
       /\ sessions[pre[t][2] + 1] = head[pre[t][1]].tree
       /\ state = new_state[t]

(* Thread t requests a destroy from of_mux_set_state in this step. *)
DestroyStep(t) ==
    /\ pc[t] = "destroy"
    /\ Len(log'[t]) = Len(log[t]) + 1
    /\ NotTornDown

(* C10 as stated: the event sequence of a successful switch, every destroy *)
(* is requested for the overlay created last, and no overlay id is passed  *)
(* to a destroy more than once.                                            *)
C10_TokenOnce ==
    [][ /\ \A t \in Threads : C10_Sequence(t)'
        /\ \A t \in Threads :
             DestroyStep(t) => /\ overlay_id >= 0
                               /\ overlay_id = Len(sessions) - 1
                               /\ overlay_id \notin tried ]_vars

(* C10 amended: the event sequence of a successful switch, every destroy   *)
(* is requested for the overlay created last, and no overlay id is passed  *)
(* to a destroy after a destroy of it has succeeded (a failed destroy is   *)
(* requested again by the next switch).                                    *)
C10_TokenNotReused ==
    [][ /\ \A t \in Threads : C10_Sequence(t)'
        /\ \A t \in Threads :
             DestroyStep(t) => /\ overlay_id >= 0
                               /\ overlay_id = Len(sessions) - 1
                               /\ overlay_id \notin destroyed ]_vars

(* A successful switch with both delays is about to return, after an       *)
(* earlier write of the attribute.                                         *)
C10_Witness ==
    \E t \in Users :
        /\ pc[t] = "unlock"
        /\ ret[t] = 0
        /\ pre[t][1] # NULL
        /\ Len(log[t]) = 4
        /\ state = new_state[t]
        /\ overlay_id = 1
        /\ calls = 2

(* Every engine call of the log l succeeded. *)
AllSucceeded(l) == \A i \in 1..Len(l) : l[i][3] >= 0

(* The id of the overlay that the call of thread t created, -1 if none. *)
CreatedId(t) ==
    IF EngineCalls(log[t]) # <<>>
         /\ EngineCalls(log[t])[Len(EngineCalls(log[t]))][1] = "create"
    THEN EngineCalls(log[t])[Len(EngineCalls(log[t]))][3]
    ELSE -1

(* Two writers have both returned from successful calls that each created  *)
(* an overlay: mux->state is the target of the one whose overlay was       *)
(* created last, which is the one that took the lock last.                 *)
C11_BothReturned ==
    \A t \in Users, u \in Users :
        ( /\ t # u
          /\ NotTornDown
          /\ pc[t] = "store_ret" /\ new_state[t] # NULL /\ ret[t] = 0
          /\ pc[u] = "store_ret" /\ new_state[u] # NULL /\ ret[u] = 0
          /\ CreatedId(u) >= 0
          /\ CreatedId(t) > CreatedId(u) )
        => state = new_state[t]

(* C11: of two concurrent of_mux_set_state calls one runs its whole        *)
(* protocol before the other takes the lock; a call whose engine calls all *)
(* succeeded releases the lock with mux->state at its target, mux->state   *)
(* does not change while the lock is free, and so once both have returned  *)
(* mux->state is the target of the call that took the lock last.           *)
C11_LastLockerWins ==
    [][ /\ \A t \in Threads :
             (pc[t] = "lock" /\ pc'[t] # "lock")
             => \A u \in Threads \ {t} : ~Holding(u) /\ ~Holding(u)'
        /\ \A t \in Threads :
             (pc[t] = "unlock" /\ pc'[t] # "unlock" /\ AllSucceeded(log[t]))
             => /\ ret[t] = 0
                /\ state' = new_state[t]
                /\ lock' = NoOwner
        /\ (lock = NoOwner /\ lock' = NoOwner) => state' = state
        /\ C11_BothReturned' ]_vars

(* Two writers with different targets have both run the protocol with      *)
(* success and returned; the second overlay created is the applied one.    *)
C11_Witness ==
    \E t \in Users, u \in Users :
        /\ pc[t] = "store_ret" /\ pc[u] = "store_ret"
        /\ ret[t] = 0 /\ ret[u] = 0
        /\ new_state[t] # new_state[u]
        /\ CreatedId(u) >= 0
        /\ CreatedId(t) > CreatedId(u)
        /\ state = new_state[t]
        /\ lock = NoOwner
        /\ NotTornDown

(* The line state_show prints for the state i of the catalog. *)
NameLine(i) == head[i].name \o <<"\n">>

(* Thread u holds the lock for a switch from a current state to another. *)
InFlight(u) ==
    /\ Holding(u)
    /\ pre[u][1] # NULL
    /\ pre[u][1] # new_state[u]

(* Thread t reads the attribute "state" in this step. *)
StateShowStep(t) == pc[t] = "idle" /\ pc'[t] = "state_show_ret"

(* C12 as stated: a read of the attribute "state" during a switch from A   *)
(* to B gives the name of A or the name of B, at every point of the        *)
(* protocol.                                                               *)
C12_PreOrPost ==
    [][ \A t \in Users, u \in Threads :
          (StateShowStep(t) /\ InFlight(u))
          => out'[t] \in {NameLine(pre[u][1]), NameLine(new_state[u])} ]_vars

(* C12 amended: a read of the attribute "state" during a switch from A to  *)
(* B gives the whole name of A until the destroy has succeeded, the empty  *)
(* name from then until the create has succeeded, and the whole name of B  *)
(* after it; never anything else.                                          *)
C12_PreEmptyOrPost ==
    [][ \A t \in Users, u \in Threads :
          (StateShowStep(t) /\ InFlight(u))
          => \/ /\ out'[t] = NameLine(pre[u][1])
                /\ state = pre[u][1]
                /\ pc[u] \in {"destroy", "unlock"}
                /\ AllSucceeded(log[u]) => log[u] = <<>>
             \/ /\ out'[t] = <<"\n">>
                /\ state = NULL
                /\ log[u] # <<>>
                /\ log[u][1] = <<"destroy", pre[u][2], 0>>
                /\ pc[u] \in {"sleep", "create", "unlock"}
             \/ /\ out'[t] = NameLine(new_state[u])
                /\ state = new_state[u]
                /\ pc[u] \in {"post_sleep", "unlock"}
                /\ AllSucceeded(log[u]) ]_vars

(* A read has given the empty name while the writer, which took the lock   *)
(* with a state current, is in the switch delay.                           *)
C12_Witness ==
    /\ pc["u2"] = "state_show_ret"
    /\ out["u2"] = <<"\n">>
    /\ InFlight("u1")
    /\ pc["u1"] = "sleep"
    /\ calls = 2
    /\ log["drv"] # <<>>
    /\ AllSucceeded(log["drv"])

(* The names of the list hd, each followed by a space. *)
RECURSIVE JoinNames(_)
JoinNames(hd) ==
    IF hd = <<>> THEN <<>>
    ELSE JoinNames(SubSeq(hd, 1, Len(hd) - 1)) \o hd[Len(hd)].name \o <<" ">>

(* The catalog is in registration order: the states are the children with  *)
(* the prefix, in the order of the device tree.                            *)
RegistrationOrder ==
    /\ \A i, j \in 1..Len(head) : i < j => head[i].tree < head[j].tree
    /\ \A i \in 1..Len(head) :
          PREFIX \o head[i].name = children[head[i].tree]
    /\ \A n \in 1..Len(children) :
          (Len(children[n]) >= Len(PREFIX)
             /\ SubSeq(children[n], 1, Len(PREFIX)) = PREFIX)
          => \E i \in 1..Len(head) : head[i].tree = n

(* The name of the k-th state fits the page after the names before it. *)
Fits(k) ==
    Len(JoinNames(SubSeq(head, 1, k - 1))) < PAGE_SIZE - Len(head[k].name) - 3

(* C16 as stated: a read of "available_states" gives the names of all the  *)
(* states, in registration order; none is omitted.                         *)
C16_AllListed ==
    \A t \in Users :
        pc[t] = "available_states_show_ret"
        => /\ RegistrationOrder
           /\ out[t] = JoinNames(head) \o <<"\n">>

(* C16 amended: a read of "available_states" gives, in registration order, *)
(* the names of the states up to the first one that does not fit the page; *)
(* when every name fits, none is omitted.                                  *)
C16_ListedWhileFits ==
    \A t \in Users :
        pc[t] = "available_states_show_ret"
        => /\ RegistrationOrder
           /\ \E k \in 0..Len(head) :
                /\ out[t] = JoinNames(SubSeq(head, 1, k)) \o <<"\n">>
                /\ \A j \in 1..k : Fits(j)
                /\ k < Len(head) => ~Fits(k + 1)

(* After a write of the attribute "state", the list of two states has been *)
(* read: the first name is listed and the second one, which does not fit   *)
(* the page, is omitted.                                                   *)
C16_Witness ==
    /\ pc["u2"] = "available_states_show_ret"
    /\ Len(head) = 2
    /\ state = 1
    /\ calls = 2
    /\ Len(head[1].name) = 1
    /\ out["u2"] = head[1].name \o <<" ", "\n">>

(* Probe has called of_mux_set_state with the default state and the call   *)
(* has failed: the name is unknown or an engine call failed.               *)
DefaultFailed ==
    /\ pc["drv"] \in {"publish", "bound"}
    /\ \/ ~Known(default_state)
       \/ ~AllSucceeded(log["drv"])

RemoveDecided == pc["drv"] \in {"remove_files", "remove_failed", "removed"}

(* C14: of_mux_remove calls of_overlay_destroy exactly once, with the      *)
(* overlay_id it read, when that is not negative (it is not whenever       *)
(* mux->state is set), and before any of_node_put; when the destroy fails  *)
(* remove returns its error, with no second destroy and no of_node_put;    *)
(* when it succeeds or there was no overlay, remove returns 0 with exactly *)
(* one of_node_put for the tree of every state.                            *)
C14_Remove ==
    /\ pc["drv"] # "removed" => \A n \in DOMAIN node_puts : node_puts[n] = 0
    /\ RemoveDecided =>
          /\ IF pre["drv"][2] >= 0
             THEN /\ Len(log["drv"]) = 1
                  /\ log["drv"][1][1] = "destroy"
                  /\ log["drv"][1][2] = pre["drv"][2]
             ELSE log["drv"] = <<>>
          /\ pre["drv"][1] # NULL
             => /\ pre["drv"][2] >= 0
                /\ sessions[pre["drv"][2] + 1] = head[pre["drv"][1]].tree
    /\ pc["drv"] = "remove_failed"
       => /\ log["drv"] # <<>>
          /\ log["drv"][1][3] < 0
          /\ ret["drv"] = log["drv"][1][3]
          /\ files # {}
    /\ pc["drv"] \in {"remove_files", "removed"}
       => AllSucceeded(log["drv"])
    /\ pc["drv"] = "removed"
       => /\ ret["drv"] = 0
          /\ \A i \in 1..Len(head) : node_puts[head[i].tree] = 1

(* Remove has destroyed the overlay of the current state and put the tree  *)
(* of both states.                                                         *)
C14_Witness ==
    /\ pc["drv"] = "removed"
    /\ pre["drv"][1] # NULL
    /\ log["drv"] # <<>>
    /\ Len(head) = 2
    /\ node_puts[1] = 1
    /\ node_puts[2] = 1

(* C15: probe fails with -EINVAL when no child node is a state, so an      *)
(* instance past the discovery has a non-empty list of states, the states  *)
(* of the child nodes, and no step after the discovery changes the list.   *)
C15_StatesFixed ==
    [][ /\ pc["drv"] # "probe" => head' = head
        /\ (pc["drv"] \notin {"probe", "failed"})'
           => (head # <<>> /\ head = discover(children, Len(children)))'
        /\ (pc["drv"] # "probe" /\ discover(children, Len(children)) = <<>>)'
           => (pc["drv"] = "failed" /\ ret["drv"] \in {-EINVAL, -ENOMEM}
               /\ files = {} /\ ~drvdata)' ]_vars

(* A write of the attribute returns from a bound instance that has one     *)
(* state, found among two child nodes.                                     *)
C15_Witness ==
    /\ pc["drv"] = "bound"
    /\ Len(children) = 2
    /\ Len(head) = 1
    /\ head = discover(children, Len(children))
    /\ calls = 1
    /\ pc["u1"] = "unlock"
    /\ ret["u1"] = 0

(* The call of thread t has destroyed the overlay of the old state and has *)
(* not yet created the overlay of the new one.                             *)
BetweenDestroyAndCreate(t) ==
    /\ pc[t] \in {"sleep", "create"}
    /\ pre[t][2] >= 0

(* C17: from a successful destroy until the create, through the whole      *)
(* switch delay, mux->state is NULL and mux->overlay_id is negative, so    *)
(* neither names the overlay that was destroyed.                           *)
C17_BothCleared ==
    \A t \in Threads :
        BetweenDestroyAndCreate(t)
        => /\ state = NULL
           /\ overlay_id < 0
           /\ overlay_id \notin destroyed

(* of_mux_set_state has returned to its caller in thread t. *)
Returned(t) == pc[t] \in {"publish", "store_ret"}

(* The exit of the call of thread t: its result and its engine calls agree *)
(* with one of the four paths to the label unlock.                         *)
ExitPath(t) ==
    LET calllog == EngineCalls(log[t])
        last == calllog[Len(calllog)]
    IN  \/ ret[t] = 0 /\ log[t] = <<>> /\ pre[t][1] = new_state[t]
        \/ ret[t] < 0 /\ calllog # <<>> /\ last = <<"destroy", pre[t][2], ret[t]>>
        \/ ret[t] < 0 /\ calllog # <<>> /\ last = <<"create", head[new_state[t]].tree, ret[t]>>
        \/ ret[t] = 0 /\ calllog # <<>> /\ last[1] = "create" /\ last[3] >= 0

(* C18: every call of of_mux_set_state that reaches mutex_lock returns,    *)
(* whatever the other threads do, and each step that returns is the        *)
(* mutex_unlock of the caller on one of the four paths (already current,   *)
(* failed destroy, failed create, success), after which the caller does    *)
(* not own the mutex.                                                      *)
C18_ReturnsUnlocked ==
    /\ [][ \A t \in Threads :
             (~Returned(t) /\ Returned(t)' /\ pc[t] # "idle")
             => /\ lock = t
                /\ lock' = NoOwner
                /\ ExitPath(t) ]_vars
    /\ \A t \in Threads : pc[t] = "lock" ~> Returned(t)

(* A write has returned the error of its destroy while the other writer,   *)
(* which waited for the mutex, owns it.                                    *)
C18_Witness ==
    \E t \in Users, u \in Users :
        /\ pc[t] = "store_ret"
        /\ ret[t] < 0
        /\ log[t] # <<>>
        /\ log[t][1][1] = "destroy"
        /\ lock = u
        /\ pc[u] = "destroy"

(* C19: a handler of an attribute runs only once probe has stored the      *)
(* instance with platform_set_drvdata, after the delays are read: no       *)
(* handler ever finds dev_get_drvdata(dev) NULL.                           *)
C19_HandlersAfterPublish ==
    \A t \in Users :
        in_handler(t)
        => /\ pc[t] # "oops"
           /\ pc["drv"] \notin {"file_avail", "default", "lock", "destroy",
                                "sleep", "create", "post_sleep", "unlock",
                                "publish"}

(* This step passes mux->overlay_id to of_overlay_destroy, from            *)
(* of_mux_set_state or from of_mux_remove.                                 *)
DestroyCalled ==
    \/ \E t \in Threads : /\ pc[t] = "destroy"
                          /\ Len(log'[t]) = Len(log[t]) + 1
    \/ /\ pc["drv"] = "bound"
       /\ pc'["drv"] # "bound"
       /\ overlay_id >= 0

(* Remove has returned 0. *)
RemoveSucceeded == pc["drv"] = "removed" /\ ret["drv"] = 0

(* C20: when of_mux_remove runs while a write of the attribute is inside   *)
(* of_mux_set_state, no overlay id is passed to of_overlay_destroy twice   *)
(* (in its weakest reading: never again after a destroy of it succeeded)   *)
(* and no overlay is applied once remove has returned 0.                   *)
C20_RemoveRace ==
    [][ /\ DestroyCalled => overlay_id \notin destroyed
        /\ RemoveSucceeded' => applied' = {} ]_vars

====
